---------------------------- MODULE Spec2Model ----------------------------
(***************************************************************************)
(* Model of the job search and resume tailoring app                        *)
(*   src/app/job_finder.py      JobPosting, JobFinder.search               *)
(*   src/app/resume_modifier.py match_skills, tailor_summary,              *)
(*                              tailor_resume, _split_sections             *)
(* Text is modelled by TLA+ strings, character by character: the Python    *)
(* string methods the code calls (strip, lower, upper, isupper, split,     *)
(* splitlines, join, in) are operators over the characters of a string.    *)
(***************************************************************************)
EXTENDS Integers, Sequences, FiniteSets, TLC

VARIABLES
    \* JobFinder (src/app/job_finder.py)
    jobs,       \* self._jobs: the stored JobPosting objects, in load order
    loaded,     \* the field values of the stored postings as _load_jobs built them
    query,      \* the arguments of the last search call
    result,     \* the list the last search call returned (see IsStored and Deref)
    fresh,      \* TRUE from the return of search until the caller writes to a result
    writes,     \* number of writes the caller made to returned postings
    \* match_skills (src/app/resume_modifier.py)
    resume_skills, job_skills, overlap,
    \* tailor_summary
    base_summary, matched_in, summary_out,
    \* tailor_resume
    resume_text, job, parsed, sections, assembled, tailored,
    pc

vars == <<jobs, loaded, query, result, fresh, writes,
          resume_skills, job_skills, overlap,
          base_summary, matched_in, summary_out,
          resume_text, job, parsed, sections, assembled, tailored, pc>>

searchVars == <<jobs, loaded, query, result, fresh, writes>>
matchVars == <<resume_skills, job_skills, overlap>>
summaryVars == <<base_summary, matched_in, summary_out>>
tailorVars == <<resume_text, job, parsed, sections, assembled, tailored>>

-----------------------------------------------------------------------------
(* Python str methods *)

UpperLetters == "ABCDEFGHIJKLMNOPQRSTUVWXYZ"
LowerLetters == "abcdefghijklmnopqrstuvwxyz"

Char(s, i) == SubSeq(s, i, i)

UpperSet == {Char(UpperLetters, i) : i \in 1..Len(UpperLetters)}
LowerSet == {Char(LowerLetters, i) : i \in 1..Len(LowerLetters)}
Whitespace == {" ", "\n", "\t"}

LowerOf == [c \in UpperSet |->
              Char(LowerLetters, CHOOSE i \in 1..Len(UpperLetters) : Char(UpperLetters, i) = c)]
UpperOf == [c \in LowerSet |->
              Char(UpperLetters, CHOOSE i \in 1..Len(LowerLetters) : Char(LowerLetters, i) = c)]

LowerChar(c) == IF c \in UpperSet THEN LowerOf[c] ELSE c
UpperChar(c) == IF c \in LowerSet THEN UpperOf[c] ELSE c

\* lower and upper halve the string and put the halves' results together,
\* which gives the result of a left-to-right pass.

RECURSIVE lower(_)
lower(s) ==
    IF Len(s) <= 1 THEN LowerChar(s)
    ELSE LET m == Len(s) \div 2
         IN lower(SubSeq(s, 1, m)) \o lower(SubSeq(s, m + 1, Len(s)))

RECURSIVE upper(_)
upper(s) ==
    IF Len(s) <= 1 THEN UpperChar(s)
    ELSE LET m == Len(s) \div 2
         IN upper(SubSeq(s, 1, m)) \o upper(SubSeq(s, m + 1, Len(s)))

\* str.isupper(): at least one cased character, and no lower-case one
isupper(s) ==
    /\ \E i \in 1..Len(s) : Char(s, i) \in UpperSet
    /\ \A i \in 1..Len(s) : Char(s, i) \notin LowerSet

\* the recursions of lstripChars and rstripChars are as deep as the number
\* of characters they take away
RECURSIVE lstripChars(_, _)
lstripChars(s, cs) ==
    IF s # "" /\ Head(s) \in cs THEN lstripChars(Tail(s), cs) ELSE s

RECURSIVE rstripChars(_, _)
rstripChars(s, cs) ==
    IF s # "" /\ Char(s, Len(s)) \in cs
    THEN rstripChars(SubSeq(s, 1, Len(s) - 1), cs) ELSE s

\* str.strip(chars): without the leading and trailing characters in cs
stripChars(s, cs) == rstripChars(lstripChars(s, cs), cs)

\* str.strip()
strip(s) == stripChars(s, Whitespace)

\* sub in s
contains(s, sub) ==
    \E i \in 1..(Len(s) - Len(sub) + 1) : SubSeq(s, i, i + Len(sub) - 1) = sub

\* sep.join(items)
RECURSIVE join(_, _)
join(sep, items) ==
    IF items = <<>> THEN ""
    ELSE IF Len(items) = 1 THEN items[1]
    ELSE items[1] \o sep \o join(sep, Tail(items))

\* the pieces of s between the characters in seps, empty pieces kept:
\* at[k] is the place of the k-th of these characters
splitAt(s, seps) ==
    LET places == {i \in 1..Len(s) : Char(s, i) \in seps}
        n == Cardinality(places)
        at == [k \in 1..n |->
                 CHOOSE i \in places : Cardinality({j \in places : j < i}) = k - 1]
    IN [k \in 1..(n + 1) |->
          SubSeq(s, IF k = 1 THEN 1 ELSE at[k - 1] + 1,
                    IF k = n + 1 THEN Len(s) ELSE at[k] - 1)]

\* s.split(sep) for a one-character sep: every separator cuts, empty pieces kept
split(s, sep) == splitAt(s, {sep})

\* s.split(): cut at runs of whitespace, no empty pieces
splitWs(s) == SelectSeq(splitAt(s, Whitespace), LAMBDA piece : piece # "")

\* s.splitlines(): cut at line breaks, no empty last line after a final break
splitlines(s) ==
    IF s = "" THEN <<>>
    ELSE IF Char(s, Len(s)) = "\n" THEN split(SubSeq(s, 1, Len(s) - 1), "\n")
    ELSE split(s, "\n")

-----------------------------------------------------------------------------
(* JobPosting and JobFinder, src/app/job_finder.py *)

MaxJobs == 2        \* postings in a catalog
MaxKeywords == 2    \* keywords in a query
MaxWrites == 1      \* writes a caller makes to returned postings

\* JobPosting(**entry): the dataclass with its default score
JobPosting(id, title, company, location, type, summary, skills, tools, experience_level, description, responsibilities) ==
    [id |-> id, title |-> title, company |-> company, location |-> location,
     type |-> type, summary |-> summary, skills |-> skills, tools |-> tools,
     experience_level |-> experience_level, description |-> description,
     responsibilities |-> responsibilities, score |-> 0]

\* entries of a jobs file
JobPool ==
    { JobPosting("DS-101", "Data Sci", "Acme", "Remote", "Full-time",
                 "ML", <<"Py", "SQL">>, <<"Git">>, "Mid", "data", <<"Train">>),
      JobPosting("PM-301", "PM", "Bolt", "New York", "Full-time",
                 "Plan", <<"SQL">>, <<"Jira">>, "Senior", "road", <<"Ship">>),
      JobPosting("DE-201", "Data Eng", "Core", "Remote NY", "Contract",
                 "ETL", <<"Py">>, <<"Airflow">>, "Junior", "pipes", <<"Run">>) }

\* the keywords a caller passes, as typed
KeywordPool == {"data", "sql", " SQL ", " "}

\* location argument: <<>> is None, <<p>> is the pattern p (patterns without
\* regular-expression metacharacters)
LocationPool == {<<>>, <<"">>, <<"remote">>}

\* what a caller appends to the skills list of a returned posting
CallerSkill == "Data"

SeqsUpTo(S, n) == UNION {[1..k -> S] : k \in 0..n}

Catalogs ==
    {c \in SeqsUpTo(JobPool, MaxJobs) :
        \A i, j \in 1..Len(c) : i # j => c[i].id # c[j].id}

\* line 65: [kw.strip().lower() for kw in keywords if kw.strip()]
RECURSIVE normalizeKeywords(_)
normalizeKeywords(kws) ==
    IF kws = <<>> THEN <<>>
    ELSE (IF strip(Head(kws)) # "" THEN <<lower(strip(Head(kws)))>> ELSE <<>>)
         \o normalizeKeywords(Tail(kws))

\* truth value of the location argument (None and "" are falsy)
locationGiven(location) == location # <<>> /\ location[1] # ""

\* line 72: location_regex.search(job.location) under re.IGNORECASE
locationMatches(pattern, location) == contains(lower(location), lower(pattern))

\* lines 76-77
searchText(j) ==
    lower(join(" ", <<j.title, j.summary, j.description, join(" ", j.skills)>>))

\* lines 75, 78-80
RECURSIVE keywordScore(_, _)
keywordScore(keywords, text) ==
    IF keywords = <<>> THEN 0
    ELSE (IF contains(text, Head(keywords)) THEN 1 ELSE 0)
         + keywordScore(Tail(keywords), text)

\* line 81 without its second case: only postings with a score
includedScoreOnly(score, keywords, hasRegex) == score # 0

\* line 81: score or (not keywords and location_regex)
included(score, keywords, hasRegex) ==
    score # 0 \/ (keywords = <<>> /\ hasRegex)

\* lines 28-34 and 82-83: a new JobPosting built from to_display_dict(), whose
\* list fields are new lists, with the score set
jobCopy(j, score) == [j EXCEPT !.score = score]

\* list.sort(key=score, reverse=True) is stable: insert each element, in
\* order, behind the elements whose score is not smaller
RECURSIVE insertByScore(_, _)
insertByScore(sorted, e) ==
    IF sorted = <<>> THEN <<e>>
    ELSE IF Head(sorted).val.score >= e.val.score
         THEN <<Head(sorted)>> \o insertByScore(Tail(sorted), e)
    ELSE <<e>> \o sorted

RECURSIVE sortByScore(_, _)
sortByScore(done, rest) ==
    IF rest = <<>> THEN done
    ELSE sortByScore(insertByScore(done, Head(rest)), Tail(rest))

\* lines 69-84: the loop over self.jobs
RECURSIVE matchedJobs(_, _, _)
matchedJobs(js, keywords, location) ==
    IF js = <<>> THEN <<>>
    ELSE LET j == Head(js)
             rest == matchedJobs(Tail(js), keywords, location)
             score == keywordScore(keywords, searchText(j))
         IN IF locationGiven(location) /\ ~locationMatches(location[1], j.location)
            THEN rest
            ELSE IF included(score, keywords, locationGiven(location))
                 THEN <<[val |-> jobCopy(j, score)]>> \o rest
                 ELSE rest

\* An element of a returned list is an object: [ref |-> i] is the stored
\* object self._jobs[i] itself, [val |-> p] an object of its own.
\* lines 66-67: list(self.jobs) holds the stored objects
storedObjects(js) == [i \in 1..Len(js) |-> [ref |-> i]]

\* JobFinder.search
search(js, kws, location) ==
    LET keywords == normalizeKeywords(kws)
    IN IF keywords = <<>> /\ ~locationGiven(location)
       THEN storedObjects(js)
       ELSE sortByScore(<<>>, matchedJobs(js, keywords, location))

IsStored(e) == "ref" \in DOMAIN e

\* the posting an element of a returned list is, now
Deref(e) == IF IsStored(e) THEN jobs[e.ref] ELSE e.val

Idle == "-"

Queries ==
    [keywords : SeqsUpTo(KeywordPool, MaxKeywords), location : LocationPool]

\* a finder whose jobs file is loaded, and a caller about to make one call
InitQuery ==
    /\ jobs \in Catalogs
    /\ loaded = jobs
    /\ query \in Queries
    /\ result = <<>>
    /\ fresh = FALSE
    /\ writes = 0
    /\ pc = "call"
    /\ resume_skills = Idle /\ job_skills = Idle /\ overlap = Idle
    /\ base_summary = Idle /\ matched_in = Idle /\ summary_out = Idle
    /\ resume_text = Idle /\ job = Idle /\ parsed = Idle /\ sections = Idle
    /\ assembled = Idle /\ tailored = Idle

\* the call finder.search(query.keywords, query.location)
CallSearch ==
    /\ pc = "call"
    /\ result' = search(jobs, query.keywords, query.location)
    /\ fresh' = TRUE
    /\ pc' = "done"
    /\ UNCHANGED <<jobs, loaded, query, writes, matchVars, summaryVars, tailorVars>>

NextQuery == CallSearch

SpecQuery == InitQuery /\ [][NextQuery]_vars

\* a finder whose jobs file is loaded, and a caller that searches and writes
\* to what it is given, any number of times
InitSearch ==
    /\ jobs \in Catalogs
    /\ loaded = jobs
    /\ query = Idle
    /\ result = <<>>
    /\ fresh = FALSE
    /\ writes = 0
    /\ pc = "search"
    /\ resume_skills = Idle /\ job_skills = Idle /\ overlap = Idle
    /\ base_summary = Idle /\ matched_in = Idle /\ summary_out = Idle
    /\ resume_text = Idle /\ job = Idle /\ parsed = Idle /\ sections = Idle
    /\ assembled = Idle /\ tailored = Idle

\* a call of finder.search(keywords, location)
Search ==
    \E q \in Queries :
        /\ pc = "search"
        /\ query' = q
        /\ result' = search(jobs, q.keywords, q.location)
        /\ fresh' = TRUE
        /\ UNCHANGED <<jobs, loaded, writes, pc, matchVars, summaryVars, tailorVars>>

\* a write to a field of the k-th returned posting: to the stored object when
\* it is one, else to the caller's own object
WriteTo(k, p) ==
    /\ writes < MaxWrites
    /\ writes' = writes + 1
    /\ fresh' = FALSE
    /\ IF IsStored(result[k])
       THEN /\ jobs' = [jobs EXCEPT ![result[k].ref] = p]
            /\ UNCHANGED result
       ELSE /\ result' = [result EXCEPT ![k] = [val |-> p]]
            /\ UNCHANGED jobs
    /\ UNCHANGED <<loaded, query, pc, matchVars, summaryVars, tailorVars>>

\* the caller does results[k].score = results[k].score + 1
SetScore ==
    \E k \in 1..Len(result) :
        LET p == Deref(result[k]) IN WriteTo(k, [p EXCEPT !.score = p.score + 1])

\* the caller does results[k].skills.append(CallerSkill)
AppendSkill ==
    \E k \in 1..Len(result) :
        LET p == Deref(result[k])
        IN WriteTo(k, [p EXCEPT !.skills = Append(p.skills, CallerSkill)])

NextSearch == Search \/ SetScore \/ AppendSkill

SpecSearch == InitSearch /\ [][NextSearch]_vars

-----------------------------------------------------------------------------
(* What the claims about search say, in terms of the call's arguments and   *)
(* of the postings returned                                                 *)

\* sub occurs somewhere in s
Occurs(sub, s) ==
    \E i \in 0..(Len(s) - Len(sub)) : SubSeq(s, i + 1, i + Len(sub)) = sub

\* the keyword set of a query: trimmed, lower-cased, empty ones discarded
UsableKeywords(kws) == {lower(strip(kws[i])) : i \in 1..Len(kws)} \ {""}

\* the lower-cased title+summary+description+skills text of a posting
PostingText(p) ==
    lower(p.title \o " " \o p.summary \o " " \o p.description \o " "
          \o join(" ", p.skills))

MatchedKeywords(kws, p) ==
    {kw \in UsableKeywords(kws) : Occurs(kw, PostingText(p))}

\* no pattern given, or the pattern matches somewhere in the location,
\* whatever the case of the letters
PassesLocation(location, p) ==
    location = <<>> \/ Occurs(lower(location[1]), lower(p.location))

Returned == [k \in 1..Len(result) |-> Deref(result[k])]

Appears(id) == \E k \in 1..Len(result) : Returned[k].id = id

LoadPosition(id) == CHOOSE i \in 1..Len(loaded) : loaded[i].id = id

\* C1: the list search returns is ordered by non-increasing score, and
\* returned postings of equal score are in the order of the loaded catalog.
C1_SortedStable ==
    fresh =>
      \A a, b \in 1..Len(result) :
        a < b =>
          /\ Returned[a].score >= Returned[b].score
          /\ Returned[a].score = Returned[b].score
               => LoadPosition(Returned[a].id) < LoadPosition(Returned[b].id)

\* C2: a search with no usable keyword and no location pattern returns every
\* loaded posting once, in load order, each with score zero.
C2_EmptyQueryAllZero ==
    (fresh /\ UsableKeywords(query.keywords) = {} /\ query.location = <<>>) =>
      /\ Len(result) = Len(loaded)
      /\ \A i \in 1..Len(result) :
           Returned[i].id = loaded[i].id /\ Returned[i].score = 0

\* C3, as claimed: a posting is returned if and only if it passes the location
\* filter and either its score is greater than zero or the query has no
\* keywords at all and a location pattern was supplied.
C3_IncludedIff ==
    fresh =>
      \A i \in 1..Len(jobs) :
        Appears(jobs[i].id) <=>
          /\ PassesLocation(query.location, jobs[i])
          /\ \/ MatchedKeywords(query.keywords, jobs[i]) # {}
             \/ UsableKeywords(query.keywords) = {} /\ query.location # <<>>

\* C3, amended: a posting is returned if and only if it passes the location
\* filter and either its score is greater than zero or the query has no
\* usable keyword (with or without a location pattern: a query with neither
\* returns every posting).
C3_IncludedIffAmended ==
    fresh =>
      \A i \in 1..Len(jobs) :
        Appears(jobs[i].id) <=>
          /\ PassesLocation(query.location, jobs[i])
          /\ \/ MatchedKeywords(query.keywords, jobs[i]) # {}
             \/ UsableKeywords(query.keywords) = {}

\* a location-only query returned some of the postings and left some out
C3_Witness ==
    /\ fresh
    /\ UsableKeywords(query.keywords) = {}
    /\ query.location = <<"remote">>
    /\ 0 < Len(result)
    /\ Len(result) < Len(jobs)

\* C4: the score of every returned posting is the number of keywords of the
\* query's keyword set that occur in the posting's text, so a keyword counts
\* once however often the caller supplied it.
C4_ScoreCountsKeywordSet ==
    fresh =>
      \A k \in 1..Len(result) :
        Returned[k].score
          = Cardinality(MatchedKeywords(query.keywords, Returned[k]))

\* C5: whatever was searched, and whatever a caller wrote to the postings it
\* was given, every stored posting has its loaded field values and score 0.
C5_StoredUnaffected ==
    /\ Len(jobs) = Len(loaded)
    /\ \A i \in 1..Len(jobs) : jobs[i] = loaded[i] /\ jobs[i].score = 0

-----------------------------------------------------------------------------
(* match_skills and tailor_summary, src/app/resume_modifier.py *)

MaxResumeLines == 2   \* lines of resume skills given to match_skills
MaxJobSkills == 2     \* skills of the posting given to match_skills
MaxMatched == 6       \* matched skills given to tailor_summary
FocusSkills == 5      \* matched_skills[:5]

\* normalize_token without lower()
normalizeTokenKeepCase(token) == strip(token)

normalize_token(token) == lower(strip(token))

\* lines 15-17: the loop that collects the normalized parts of every item
RECURSIVE tokenizeAll(_)
tokenizeAll(items) ==
    IF items = <<>> THEN {}
    ELSE LET parts == split(Head(items), ",")
         IN {normalize_token(parts[i]) : i \in 1..Len(parts)}
            \cup tokenizeAll(Tail(items))

\* line 18
tokenize(items) == {token \in tokenizeAll(items) : token # ""}

\* lines 24-26
match_skills(resumeSkills, jobSkills) ==
    LET resume_tokens == tokenize(resumeSkills)
        Matched(skill) == normalize_token(skill) \in resume_tokens
    IN SelectSeq(jobSkills, Matched)

\* line 33 without the slice
focusSkillsAll(matched_skills) == matched_skills

\* line 33: matched_skills[:5]
focusSkills(matched_skills) ==
    SubSeq(matched_skills, 1,
           IF Len(matched_skills) < FocusSkills THEN Len(matched_skills) ELSE FocusSkills)

\* lines 32-41
tailor_summary(baseSummary, j, matched_skills) ==
    LET skills_text ==
            IF matched_skills # <<>>
            THEN "Key strengths aligned with this role include "
                 \o join(", ", focusSkills(matched_skills)) \o "."
            ELSE "Eager to ramp up on the team's preferred tools and practices."
    IN "Target Role: " \o j.title \o " at " \o j.company \o ".\n"
       \o strip(baseSummary) \o "\n"
       \o "Focus for this application: " \o skills_text

\* the skill lines of a resume and the skills of a posting
ResumeLinePool == {"Python, sql", " SQL", "py,,Go", ""}
JobSkillPool == {"Python", "SQL", "Go", " "}

\* base summaries, and the matched skills of a posting
BaseSummaryPool == {"Seasoned PM", "  Seasoned PM \n", "", "Built ETL\nLed a team"}
MatchedPool == {"Py", "SQL"}

InitMatch ==
    /\ resume_skills \in SeqsUpTo(ResumeLinePool, MaxResumeLines)
    /\ job_skills \in SeqsUpTo(JobSkillPool, MaxJobSkills)
    /\ overlap = <<>>
    /\ pc = "call"
    /\ jobs = Idle /\ loaded = Idle /\ query = Idle /\ result = Idle
    /\ fresh = Idle /\ writes = Idle
    /\ base_summary = Idle /\ matched_in = Idle /\ summary_out = Idle
    /\ resume_text = Idle /\ job = Idle /\ parsed = Idle /\ sections = Idle
    /\ assembled = Idle /\ tailored = Idle

\* the call match_skills(resume_skills, job_skills)
CallMatchSkills ==
    /\ pc = "call"
    /\ overlap' = match_skills(resume_skills, job_skills)
    /\ pc' = "done"
    /\ UNCHANGED <<resume_skills, job_skills, searchVars, summaryVars, tailorVars>>

NextMatch == CallMatchSkills

SpecMatch == InitMatch /\ [][NextMatch]_vars

InitSummary ==
    /\ base_summary \in BaseSummaryPool
    /\ job \in JobPool
    /\ matched_in \in SeqsUpTo(MatchedPool, MaxMatched)
    /\ summary_out = ""
    /\ pc = "call"
    /\ jobs = Idle /\ loaded = Idle /\ query = Idle /\ result = Idle
    /\ fresh = Idle /\ writes = Idle
    /\ resume_skills = Idle /\ job_skills = Idle /\ overlap = Idle
    /\ resume_text = Idle /\ parsed = Idle /\ sections = Idle
    /\ assembled = Idle /\ tailored = Idle

\* the call tailor_summary(base_summary, job, matched_in)
CallTailorSummary ==
    /\ pc = "call"
    /\ summary_out' = tailor_summary(base_summary, job, matched_in)
    /\ pc' = "done"
    /\ UNCHANGED <<base_summary, matched_in, job, searchVars, matchVars,
                   resume_text, parsed, sections, assembled, tailored>>

NextSummary == CallTailorSummary

SpecSummary == InitSummary /\ [][NextSummary]_vars

-----------------------------------------------------------------------------
(* tailor_resume and _split_sections, src/app/resume_modifier.py *)

MaxLines == 4         \* lines of a resume text
MaxHeaderWords == 4   \* len(stripped.split()) <= 4

\* A dict is the sequence of its items, in insertion order: assigning to a
\* key the dict has keeps the key's place.
dictHas(d, key) == \E i \in 1..Len(d) : d[i].key = key

dictGet(d, key, default) ==
    IF dictHas(d, key) THEN d[CHOOSE i \in 1..Len(d) : d[i].key = key].value
    ELSE default

dictPut(d, key, value) ==
    IF dictHas(d, key)
    THEN [i \in 1..Len(d) |-> IF d[i].key = key THEN [key |-> key, value |-> value] ELSE d[i]]
    ELSE Append(d, [key |-> key, value |-> value])

\* line 103
isHeader(stripped) ==
    isupper(stripped) /\ Len(splitWs(stripped)) <= MaxHeaderWords

\* lines 101-114: the loop over the lines, and what follows it
RECURSIVE splitLoop(_, _, _, _)
splitLoop(lines, secs, current_header, buffer) ==
    IF lines = <<>>
    THEN IF current_header # ""
         THEN dictPut(secs, current_header, strip(join("\n", buffer)))
         ELSE IF buffer # <<>>
              THEN dictPut(secs, "summary", strip(join("\n", buffer)))
              ELSE secs
    ELSE LET line == Head(lines)
             stripped == strip(line)
         IN IF isHeader(stripped)
            THEN IF current_header # ""
                 THEN splitLoop(Tail(lines),
                                dictPut(secs, current_header, strip(join("\n", buffer))),
                                lower(stripped), <<>>)
                 ELSE splitLoop(Tail(lines), secs, lower(stripped), buffer)
            ELSE splitLoop(Tail(lines), secs, current_header, Append(buffer, line))

\* _split_sections
split_sections(text) == splitLoop(splitlines(text), <<>>, "", <<>>)

\* _format_section
format_section(header, body) == upper(header) \o "\n" \o strip(body)

\* line 49
resumeSkillLines(skills_section) ==
    LET lines == SelectSeq(splitlines(skills_section), LAMBDA line : strip(line) # "")
    IN [i \in 1..Len(lines) |-> stripChars(lines[i], {"-", " "})]

\* lines 52-53: x or y or z takes the first that is not empty
summaryText(secs) ==
    LET a == dictGet(secs, "summary", "")
        b == dictGet(secs, "professional summary", "")
    IN IF a # "" THEN a
       ELSE IF b # "" THEN b
       ELSE "Experienced professional ready to contribute."

\* lines 55-61
highlightedLines(matched_skills) ==
    <<"Highlighted Skills for this role:">>
    \o (IF matched_skills # <<>>
        THEN [i \in 1..Len(matched_skills) |-> "- " \o matched_skills[i]]
        ELSE <<"- Rapid learner with a track record of mastering new domains">>)

\* lines 47-61: <<tailored_summary, the role highlights body>>
synthesizedParts(secs, j) ==
    LET matched_skills ==
            match_skills(resumeSkillLines(dictGet(secs, "skills", "")), j.skills)
    IN <<tailor_summary(summaryText(secs), j, matched_skills),
         join("\n", highlightedLines(matched_skills))>>

\* lines 63-64 as setdefault: a section the resume has is kept
synthesizedKeepExisting(secs, j) ==
    LET parts == synthesizedParts(secs, j)
        first == IF dictHas(secs, "tailored summary") THEN secs
                 ELSE dictPut(secs, "tailored summary", parts[1])
    IN IF dictHas(first, "role highlights") THEN first
       ELSE dictPut(first, "role highlights", parts[2])

\* lines 63-64: the sections of the resume with the two synthesized ones
synthesized(secs, j) ==
    LET parts == synthesizedParts(secs, j)
    IN dictPut(dictPut(secs, "tailored summary", parts[1]),
               "role highlights", parts[2])

\* lines 66-77
ordered_sections ==
    <<"name", "contact", "tailored summary", "summary", "professional summary",
      "experience", "projects", "education", "skills", "role highlights">>

\* lines 81-84: the loop over ordered_sections; st is <<assembled, seen>>
RECURSIVE assembleOrdered(_, _, _)
assembleOrdered(keys, secs, st) ==
    IF keys = <<>> THEN st
    ELSE LET key == Head(keys)
         IN IF dictHas(secs, key) /\ key \notin st[2]
               /\ strip(dictGet(secs, key, "")) # ""
            THEN assembleOrdered(Tail(keys), secs,
                     <<Append(st[1], format_section(key, dictGet(secs, key, ""))),
                       st[2] \cup {key}>>)
            ELSE assembleOrdered(Tail(keys), secs, st)

\* lines 87-90 without the test of seen
RECURSIVE assembleRestUnseen(_, _)
assembleRestUnseen(items, st) ==
    IF items = <<>> THEN st
    ELSE LET key == Head(items).key
             value == Head(items).value
         IN IF strip(value) # ""
            THEN assembleRestUnseen(Tail(items),
                     <<Append(st[1], format_section(key, value)), st[2] \cup {key}>>)
            ELSE assembleRestUnseen(Tail(items), st)

\* lines 87-90: the loop over sections.items()
RECURSIVE assembleRest(_, _)
assembleRest(items, st) ==
    IF items = <<>> THEN st
    ELSE LET key == Head(items).key
             value == Head(items).value
         IN IF key \notin st[2] /\ strip(value) # ""
            THEN assembleRest(Tail(items),
                     <<Append(st[1], format_section(key, value)), st[2] \cup {key}>>)
            ELSE assembleRest(Tail(items), st)

\* lines 79-90
assemble(secs) ==
    assembleRest(secs, assembleOrdered(ordered_sections, secs, <<<<>>, {}>>))[1]

\* line 92
finalText(parts) == strip(join("\n\n", parts)) \o "\n"

\* the lines a resume file is made of
LinePool ==
    {"SUMMARY", "SKILLS", "HOBBIES", "- SQL", "TAILORED SUMMARY", "- Py, sql", ""}

ResumeTexts == {join("\n", lines) : lines \in SeqsUpTo(LinePool, MaxLines)}

TailorJobs == {j \in JobPool : j.id \in {"DS-101", "PM-301"}}

InitTailor ==
    /\ resume_text \in ResumeTexts
    /\ job \in TailorJobs
    /\ parsed = <<>>
    /\ sections = <<>>
    /\ assembled = <<>>
    /\ tailored = ""
    /\ pc = "call"
    /\ jobs = Idle /\ loaded = Idle /\ query = Idle /\ result = Idle
    /\ fresh = Idle /\ writes = Idle
    /\ resume_skills = Idle /\ job_skills = Idle /\ overlap = Idle
    /\ base_summary = Idle /\ matched_in = Idle /\ summary_out = Idle

\* the call tailor_resume(resume_text, job)
CallTailorResume ==
    /\ pc = "call"
    /\ parsed' = split_sections(resume_text)
    /\ sections' = synthesized(parsed', job)
    /\ assembled' = assemble(sections')
    /\ tailored' = finalText(assembled')
    /\ pc' = "done"
    /\ UNCHANGED <<resume_text, job, searchVars, matchVars, summaryVars>>

NextTailor == CallTailorResume

SpecTailor == InitTailor /\ [][NextTailor]_vars

-----------------------------------------------------------------------------
(* What the claims about match_skills and tailor_summary say *)

\* the comma-separated tokens of a line: the stretches without a comma that
\* reach from the start or a comma to a comma or the end
CommaTokens(line) ==
    {SubSeq(line, a, b) : <<a, b>> \in
        {ab \in (1..(Len(line) + 1)) \X (0..Len(line)) :
            /\ ab[1] <= ab[2] + 1
            /\ \A i \in ab[1]..ab[2] : Char(line, i) # ","
            /\ ab[1] = 1 \/ Char(line, ab[1] - 1) = ","
            /\ ab[2] = Len(line) \/ Char(line, ab[2] + 1) = ","}}

\* the trimmed, lower-cased form of the skill equals that of some token of
\* some resume line
SkillInResume(skill, lines) ==
    \E i \in 1..Len(lines) : \E token \in CommaTokens(lines[i]) :
        lower(strip(skill)) = lower(strip(token))

SkillInResumeNonEmpty(skill, lines) ==
    lower(strip(skill)) # "" /\ SkillInResume(skill, lines)

\* the subsequence of seq at the positions idx, in increasing order
SubsequenceAt(seq, idx) ==
    [k \in 1..Cardinality(idx) |->
        seq[CHOOSE i \in idx : Cardinality({j \in idx : j <= i}) = k]]

Reverse(seq) == [i \in 1..Len(seq) |-> seq[Len(seq) + 1 - i]]

\* C6, as claimed: match_skills returns the subsequence of the job's skills
\* whose trimmed, lower-cased form equals that of some comma-separated token
\* of a resume line; the order of the resume lines does not matter.
C6_MatchIsJobSubsequence ==
    pc = "done" =>
      /\ overlap = SubsequenceAt(job_skills,
                     {i \in 1..Len(job_skills) :
                         SkillInResume(job_skills[i], resume_skills)})
      /\ match_skills(Reverse(resume_skills), job_skills) = overlap

\* C6, amended: match_skills returns the subsequence of the job's skills
\* whose trimmed, lower-cased form is not empty and equals that of some
\* comma-separated token of a resume line; the order of the resume lines
\* does not matter.
C6_MatchIsJobSubsequenceAmended ==
    pc = "done" =>
      /\ overlap = SubsequenceAt(job_skills,
                     {i \in 1..Len(job_skills) :
                         SkillInResumeNonEmpty(job_skills[i], resume_skills)})
      /\ match_skills(Reverse(resume_skills), job_skills) = overlap

\* the resume names the two skills in the other order and spelling, and the
\* result follows the job
C6_Witness ==
    /\ pc = "done"
    /\ resume_skills = <<"Python, sql">>
    /\ job_skills = <<"SQL", "Python">>
    /\ overlap = <<"SQL", "Python">>

LineBreaks(s) == Cardinality({i \in 1..Len(s) : Char(s, i) = "\n"})

FirstSkills(skills, n) ==
    [i \in 1..(IF Len(skills) < n THEN Len(skills) ELSE n) |-> skills[i]]

ExpectedFocus(matched) ==
    "Focus for this application: Key strengths aligned with this role include "
    \o join(", ", FirstSkills(matched, 5)) \o "."

FocusLineOk(line, matched) ==
    IF matched = <<>> THEN Occurs("Eager to ramp up", line)
    ELSE line = ExpectedFocus(matched)

\* C9, as claimed: tailor_summary produces exactly three lines: the target
\* role line, the trimmed base summary, and the focus line with the first up
\* to five matched skills, or "Eager to ramp up" when there is none.
C9_ThreeLines ==
    pc = "done" =>
      LET lines == split(summary_out, "\n")
      IN /\ Len(lines) = 3
         /\ lines[1] = "Target Role: " \o job.title \o " at " \o job.company \o "."
         /\ lines[2] = strip(base_summary)
         /\ FocusLineOk(lines[3], matched_in)

\* C9, amended: for a title, company and skills without line breaks,
\* tailor_summary produces the target role line, then the trimmed base
\* summary, then the focus line, joined by line breaks: three lines when the
\* trimmed base summary has no line break, and two more than the trimmed base
\* summary has lines otherwise.
C9_ThreeParts ==
    pc = "done" =>
      LET lines == split(summary_out, "\n")
          n == LineBreaks(strip(base_summary)) + 1
      IN /\ Len(lines) = n + 2
         /\ lines[1] = "Target Role: " \o job.title \o " at " \o job.company \o "."
         /\ join("\n", SubSeq(lines, 2, n + 1)) = strip(base_summary)
         /\ FocusLineOk(lines[n + 2], matched_in)

\* a summary of one line with blanks around it, and more than five skills
C9_Witness ==
    /\ pc = "done"
    /\ base_summary = "  Seasoned PM \n"
    /\ Len(matched_in) > 5
    /\ Len(split(summary_out, "\n")) = 3

-----------------------------------------------------------------------------
(* What the claims about tailor_resume say, in terms of the resume text,    *)
(* the parsed sections and the output                                       *)

InputLines == splitlines(resume_text)

WordCount(t) ==
    Cardinality({i \in 1..Len(t) :
        Char(t, i) \notin Whitespace /\ (i = 1 \/ Char(t, i - 1) \in Whitespace)})

\* trimmed, the line is entirely upper-case and has four words or fewer
IsHeaderLine(line) ==
    LET t == strip(line)
    IN /\ \E i \in 1..Len(t) : Char(t, i) \in UpperSet
       /\ \A i \in 1..Len(t) : Char(t, i) \notin LowerSet
       /\ WordCount(t) <= 4

\* a rendered section is its header line and, on the lines after it, its body
FirstBreak(a) ==
    CHOOSE i \in 1..Len(a) :
        Char(a, i) = "\n" /\ \A j \in 1..(i - 1) : Char(a, j) # "\n"

Rendered ==
    [i \in 1..Len(assembled) |->
        [header |-> SubSeq(assembled[i], 1, FirstBreak(assembled[i]) - 1),
         body |-> SubSeq(assembled[i], FirstBreak(assembled[i]) + 1, Len(assembled[i]))]]

OutputLines == split(tailored, "\n")

SynthesizedKeys == {"tailored summary", "role highlights"}

CanonicalOrder ==
    <<"name", "contact", "tailored summary", "summary", "professional summary",
      "experience", "projects", "education", "skills", "role highlights">>

IsCanonical(key) == \E i \in 1..Len(CanonicalOrder) : CanonicalOrder[i] = key

CanonicalPosition(key) ==
    CHOOSE i \in 1..Len(CanonicalOrder) : CanonicalOrder[i] = key

\* the first input line that is the header of the section key
FirstEncounter(key) ==
    CHOOSE i \in 1..Len(InputLines) :
        /\ IsHeaderLine(InputLines[i]) /\ lower(strip(InputLines[i])) = key
        /\ \A j \in 1..(i - 1) :
             ~(IsHeaderLine(InputLines[j]) /\ lower(strip(InputLines[j])) = key)

\* the section headed header is rendered once, with a body that starts with
\* the line start, and is once in the lines of the output, above that line
SynthesizedOnce(rendered, lines, header, start) ==
    /\ Cardinality({i \in 1..Len(rendered) : rendered[i].header = header}) = 1
    /\ Cardinality({i \in 1..Len(lines) : lines[i] = header}) = 1
    /\ \A i \in 1..Len(rendered) :
         rendered[i].header = header =>
           /\ strip(rendered[i].body) # ""
           /\ SubSeq(rendered[i].body, 1, Len(start)) = start
           /\ \/ Len(rendered[i].body) = Len(start)
              \/ Char(rendered[i].body, Len(start) + 1) = "\n"
    /\ \A i \in 1..Len(lines) :
         lines[i] = header => i < Len(lines) /\ lines[i + 1] = start

\* C7: the output of tailor_resume has a TAILORED SUMMARY section and a ROLE
\* HIGHLIGHTS section, each once and with a body that is not empty, and each
\* is the synthesized one, whatever section of that name the resume had.
C7_SynthesizedSections ==
    pc = "done" =>
      LET rendered == Rendered
          lines == OutputLines
      IN /\ SynthesizedOnce(rendered, lines, "TAILORED SUMMARY",
                "Target Role: " \o job.title \o " at " \o job.company \o ".")
         /\ SynthesizedOnce(rendered, lines, "ROLE HIGHLIGHTS",
                "Highlighted Skills for this role:")

\* the resume had a TAILORED SUMMARY section with a body of its own
C7_Witness ==
    /\ pc = "done"
    /\ dictHas(parsed, "tailored summary")
    /\ strip(dictGet(parsed, "tailored summary", "")) = "- Py, sql"
    /\ \E i \in 1..Len(Rendered) : Rendered[i].header = "TAILORED SUMMARY"

\* C8: no content is lost: every input line that is not blank and not a
\* header is a line of the body of some parsed section, and every parsed
\* section with a body, other than the two synthesized ones, is in the
\* output with its trimmed body.
C8_NoContentLost ==
    pc = "done" =>
      /\ \A i \in 1..Len(InputLines) :
           (strip(InputLines[i]) # "" /\ ~IsHeaderLine(InputLines[i])) =>
             \E s \in 1..Len(parsed) :
               LET body == split(parsed[s].value, "\n")
               IN \E b \in 1..Len(body) : strip(body[b]) = strip(InputLines[i])
      /\ \A s \in 1..Len(parsed) :
           (strip(parsed[s].value) # "" /\ parsed[s].key \notin SynthesizedKeys) =>
             \E r \in 1..Len(Rendered) :
               /\ Rendered[r].header = upper(parsed[s].key)
               /\ Rendered[r].body = strip(parsed[s].value)

\* C10: the rendered sections are the sections of the document with a body
\* that is not empty when trimmed, each once; those of the canonical list
\* come first, in its order, and the others follow in the order in which
\* their headers were first met in the input.
C10_RenderedOrder ==
    pc = "done" =>
      LET rendered == Rendered
          document == [s \in 1..Len(sections) |->
                         [header |-> upper(sections[s].key),
                          body |-> strip(sections[s].value)]]
          key == [r \in 1..Len(rendered) |-> lower(rendered[r].header)]
          met == [r \in 1..Len(rendered) |->
                    IF IsCanonical(key[r]) THEN 0 ELSE FirstEncounter(key[r])]
      IN /\ \A a, b \in 1..Len(rendered) :
              a # b => rendered[a].header # rendered[b].header
         /\ \A r \in 1..Len(rendered) :
              /\ rendered[r].body # ""
              /\ \E s \in 1..Len(document) : document[s] = rendered[r]
         /\ \A s \in 1..Len(document) :
              document[s].body # "" =>
                \E r \in 1..Len(rendered) : rendered[r].header = document[s].header
         /\ \A a, b \in 1..Len(rendered) :
              a < b =>
                IF IsCanonical(key[b])
                THEN /\ IsCanonical(key[a])
                     /\ CanonicalPosition(key[a]) < CanonicalPosition(key[b])
                ELSE IsCanonical(key[a]) \/ met[a] < met[b]

\* two sections of the canonical list in the other order in the resume, and
\* two sections that are not of the list
C10_Witness ==
    /\ pc = "done"
    /\ \E a, b \in 1..Len(Rendered) :
         /\ a < b
         /\ ~IsCanonical(lower(Rendered[a].header))
         /\ ~IsCanonical(lower(Rendered[b].header))
    /\ Len(Rendered) = 4

=============================================================================
